---- MODULE Spec2Model ----
(***************************************************************************)
(* Model of the quiz bot's store (db.ts) and of the bot module's handlers  *)
(* that drive it: the questions, votes and user_progress tables, the vote  *)
(* ledger (addVote), the per-user selection (getRandomQuestion), question  *)
(* persistence and deletion, and the start-up answer shuffle.              *)
(*                                                                         *)
(* Users, study keys and option texts are abstract identifiers 1..N.       *)
(* correct_index is zero-based as in the code; TLA+ sequences are          *)
(* one-based, so options[i] of the code is options[i + 1] here.            *)
(*                                                                         *)
(* bun:sqlite calls are synchronous, so every db function is one step.     *)
(* The message handler awaits the renderer between two saveQuestion calls, *)
(* so each saved candidate is a step of its own.  The handlers pass the    *)
(* ids and keys of the callback data on unchecked, so the operations take  *)
(* any id and any key.                                                     *)
(***************************************************************************)
EXTENDS Integers, Sequences, FiniteSets, TLC

\* ---- bounds of the model ----
NumUsers == 2
NumKeys == 2
MaxQuestions == 2
MaxTime == 3
NumTexts == 3
MaxOpts == 3

Users == 1..NumUsers
Keys == 1..NumKeys
\* ids the AUTOINCREMENT column can hand out within the bound
Ids == 1..MaxQuestions
Texts == 1..NumTexts
\* options[i] for an i outside the array: JavaScript's undefined
Undefined == 0
\* getRandomQuestion's null result
Null == 0

VARIABLES
    questions,      \* questions table: id -> row, for the ids that exist
    nextId,         \* the id AUTOINCREMENT hands out next
    votes,          \* votes table: set of rows
    user_progress,  \* user_progress table: set of rows
    now,            \* Date.now()
    phase,          \* "shuffle" while the start-up shuffle runs, then "serving"
    todo,           \* rows of getAllQuestionsRaw() the shuffle has yet to process
    gen,            \* the generateQuestions invocation in progress
    conc,           \* vote callbacks that arrived together, and the tables they found
    hist,           \* the calls of getRandomQuestion so far, where they are recorded
    sent,           \* the confirmation messages of /clean whose buttons can be pressed
    images,         \* the image store: id -> the options the stored image shows
    op              \* the operation performed last, with its arguments and result

vars == <<questions, nextId, votes, user_progress, now, phase, todo, gen, conc, hist,
          sent, images, op>>

\* ---- candidates handed to the message handler by generateQuestions ----
OptionLists == UNION {[1..n -> Texts] : n \in 0..MaxOpts}
\* whatever the model replied: nothing checks the shape of a candidate
Candidates == [options : OptionLists, correct_index : -1..MaxOpts]
\* one well-formed candidate, for the specifications that do not look at options
PlainCandidates == {[options |-> <<1, 2>>, correct_index |-> 0]}

\* JSON.stringify(options) on write, JSON.parse(options) on read: an array of
\* strings is written as a JSON array of string literals and read back element
\* by element; the stored text is the list of literals
JsonStringify(options) == [i \in 1..Len(options) |-> <<"str", options[i]>>]
JsonParse(text) == [i \in 1..Len(text) |-> text[i][2]]

\* op.path: the branch the operation took; op.allDistinct and op.second: what
\* getRandomQuestion found before it wrote (every question of the key exposed at
\* pairwise distinct times, and the question with the second-smallest last_used_at);
\* op.expected: op.second of the call before, when this call follows it
\* immediately for the same user and key; op.moved: the shuffle changed the
\* order of the options; op.index: the correct_index the shuffle read
NoOp == [name |-> "init", userId |-> 0, questionId |-> 0, isUpvote |-> FALSE,
         studyKey |-> 0, path |-> "none", allDistinct |-> FALSE, second |-> 0,
         expected |-> 0, moved |-> FALSE, rating |-> 0, rows |-> <<>>,
         render |-> "none", delivered |-> TRUE, after |-> 0, index |-> 0]

\* ---- values of the generation pipeline ----
\* a parsed JSON value: a list with its items, or a non-list; len is the
\* length of a string
JsonValue(kind, items, len) == [kind |-> kind, items |-> items, len |-> len]
NoValue == JsonValue("none", <<>>, 0)
\* JSON.stringify of a candidate's options when they are any JSON value: an
\* array of strings as above, and null, an object or a number as one literal
JsonStringifyValue(value) ==
    IF value.kind = "list" THEN JsonStringify(value.items)
    ELSE <<<<value.kind, value.len>>>>
\* Array.isArray(JSON.parse(text))
IsArray(text) == \A i \in 1..Len(text) : text[i][1] = "str"
\* what openai.chat.completions.create gives: it throws, or a content
Completion(throws, content) == [throws |-> throws, content |-> content]
NoCompletion == Completion(FALSE, <<>>)
\* what the prompt of the validation completion holds: the text the user sent
\* or not, and the value put under the review heading
NoPrompt == [text |-> FALSE, review |-> NoValue]
NoGen ==
    [pc |-> "idle", variant |-> "ai", draft |-> NoValue, reply1 |-> NoCompletion,
     reply2 |-> NoCompletion, calls1 |-> 0, calls2 |-> 0, result |-> NoValue,
     prompt |-> NoPrompt]

\* ---- vote callbacks in flight ----
\* vote callbacks in flight at a time
MaxCalls == 2
Slots == 1..MaxCalls
NoCall == [pc |-> "idle", userId |-> 0, questionId |-> 0, isUpvote |-> FALSE,
           existing |-> {}]
NoConc == [calls |-> [s \in Slots |-> NoCall],
           base |-> [votes |-> {}, questions |-> <<>>]]

\* bot.start() ahead of the shuffle: updates are handled from the first moment
StartedAnytime(ph) == ph \in {"shuffle", "serving"}
\* bot.start() has been reached: the bot handles updates
Started(ph) == ph = "serving"

Init ==
    /\ questions = <<>>
    /\ nextId = 1
    /\ votes = {}
    /\ user_progress = {}
    /\ now = 1
    /\ Started(phase)
    /\ todo = <<>>
    /\ gen = NoGen
    /\ conc = NoConc
    /\ hist = <<>>
    /\ sent = {}
    /\ images = <<>>
    /\ op = NoOp

\* ---- saveQuestion (db.ts) as called by the message handler's loop ----
\* the INSERT of saveQuestion with the text bound to $options; AUTOINCREMENT
\* hands out nextId
storeRow(studyKey, text, correctIndex) ==
    /\ Started(phase)
    /\ questions' = [id \in DOMAIN questions \cup {nextId} |->
                        IF id = nextId
                        THEN [study_key |-> studyKey,
                              options |-> text,
                              correct_index |-> correctIndex,
                              thumbs_up |-> 0,
                              thumbs_down |-> 0]
                        ELSE questions[id]]
    /\ nextId' = nextId + 1
    /\ op' = [NoOp EXCEPT !.name = "saveQuestion", !.questionId = nextId,
                          !.studyKey = studyKey]
    /\ UNCHANGED <<sent, votes, user_progress, now, phase, todo, gen, conc, hist>>

\* the row alone, where the image store is left out of the picture
insertRow(studyKey, text, correctIndex) ==
    /\ storeRow(studyKey, text, correctIndex)
    /\ UNCHANGED images

\* fs.writeFile(<root>/<id>/question.png) with the image rendered from the
\* options in the order given
saveQuestionImage(imgs, questionId, options) ==
    [id \in DOMAIN imgs \cup {questionId} |->
        IF id = questionId THEN options ELSE imgs[id]]

\* the body of the message handler's loop: saveQuestion, then
\* renderQuestionToImage and saveQuestionImage in a try of their own, so a
\* failure leaves a question without an image
saveQuestionAndImage(studyKey, options, correctIndex, renders) ==
    /\ nextId <= MaxQuestions
    /\ storeRow(studyKey, JsonStringify(options), correctIndex)
    /\ images' = IF renders THEN saveQuestionImage(images, nextId, options)
                 ELSE images

\* saveQuestion of a candidate whose options are an array of strings
insertQuestion(studyKey, options, correctIndex) ==
    insertRow(studyKey, JsonStringify(options), correctIndex)

\* saveQuestion while fewer than MaxQuestions questions were ever stored
saveQuestion(studyKey, options, correctIndex) ==
    /\ nextId <= MaxQuestions
    /\ insertQuestion(studyKey, options, correctIndex)

\* saveQuestion of a candidate whose options are any JSON value
saveQuestionValue(studyKey, value, correctIndex) ==
    /\ nextId <= MaxQuestions
    /\ insertRow(studyKey, JsonStringifyValue(value), correctIndex)

\* ---- clearQuestions (db.ts): only the questions rows of the key go ----
\* DELETE FROM questions WHERE study_key = $studyKey
DeleteWhereKey(qs, studyKey) ==
    [id \in {i \in DOMAIN qs : qs[i].study_key # studyKey} |-> qs[id]]

clearQuestions(studyKey) ==
    /\ Started(phase)
    /\ questions' = DeleteWhereKey(questions, studyKey)
    /\ op' = [NoOp EXCEPT !.name = "clearQuestions", !.studyKey = studyKey]
    /\ UNCHANGED <<sent, images, nextId, votes, user_progress, now, phase, todo, gen, conc, hist>>

\* ---- deleteQuestion (db.ts): the question, its votes and its progress rows ----
\* DELETE FROM questions WHERE id = $id
DeleteWhereId(qs, questionId) ==
    [id \in DOMAIN qs \ {questionId} |-> qs[id]]

deleteQuestion(questionId) ==
    /\ Started(phase)
    /\ questions' = DeleteWhereId(questions, questionId)
    /\ votes' = {r \in votes : r.question_id # questionId}
    /\ user_progress' = {r \in user_progress : r.question_id # questionId}
    /\ op' = [NoOp EXCEPT !.name = "deleteQuestion", !.questionId = questionId]
    /\ UNCHANGED <<sent, images, nextId, now, phase, todo, gen, conc, hist>>

\* ---- the handlers that remove questions (the bot module) ----
\* ADMIN_ID of the environment
AdminId == 1
\* chats the bot is written to: the admin's private chat and a group chat the
\* users are members of; an update of a chat comes from one of its members
Chats == {"admin", "group"}
Members(chat) == IF chat = "admin" THEN {AdminId} ELSE Users

\* userId !== adminId is false
IsAdmin(userId) == userId = AdminId

\* /clean: the admin gets a message with the buttons clean:<key>:confirm and
\* clean:<key>:cancel in the chat the command was sent in, where studyKey is
\* the key the sender has selected; anyone else is told off
cleanCommand(userId, chat, studyKey) ==
    /\ Started(phase)
    /\ userId \in Members(chat)
    /\ sent' = IF IsAdmin(userId)
               THEN sent \cup {[chat |-> chat, studyKey |-> studyKey]}
               ELSE sent
    /\ op' = [NoOp EXCEPT !.name = "clean", !.userId = userId, !.studyKey = studyKey,
                          !.path = IF IsAdmin(userId) THEN "asked" ELSE "refused"]
    /\ UNCHANGED <<images, questions, nextId, votes, user_progress, now, phase, todo,
                   gen, conc, hist>>

\* a member of the chat presses a button of a confirmation message: the
\* handler looks at the data alone. editMessageText replaces the message and
\* its buttons, or fails and leaves them
cleanCallback(userId, msg, action) ==
    /\ Started(phase)
    /\ msg \in sent
    /\ userId \in Members(msg.chat)
    /\ questions' = IF action = "confirm"
                    THEN DeleteWhereKey(questions, msg.studyKey)
                    ELSE questions
    /\ \E edited \in BOOLEAN : sent' = IF edited THEN sent \ {msg} ELSE sent
    /\ op' = [NoOp EXCEPT !.name = "clean:", !.userId = userId,
                          !.studyKey = msg.studyKey, !.path = action]
    /\ UNCHANGED <<images, nextId, votes, user_progress, now, phase, todo, gen, conc, hist>>

\* a press on the delete button of a listed question: deleteQuestion and
\* deleteQuestionImage (which may fail) when the admin pressed it
delCallback(userId, questionId) ==
    /\ Started(phase)
    /\ IF IsAdmin(userId)
       THEN /\ questions' = DeleteWhereId(questions, questionId)
            /\ votes' = {r \in votes : r.question_id # questionId}
            /\ user_progress' = {r \in user_progress : r.question_id # questionId}
            /\ \E unlinked \in BOOLEAN :
                  images' = IF unlinked
                            THEN [id \in DOMAIN images \ {questionId} |-> images[id]]
                            ELSE images
            /\ op' = [NoOp EXCEPT !.name = "del:", !.userId = userId,
                                  !.questionId = questionId, !.path = "deleted"]
       ELSE /\ UNCHANGED <<questions, votes, user_progress, images>>
            /\ op' = [NoOp EXCEPT !.name = "del:", !.userId = userId,
                                  !.questionId = questionId, !.path = "refused"]
    /\ UNCHANGED <<sent, nextId, now, phase, todo, gen, conc, hist>>

\* ---- addVote (db.ts) ----
VoteVal(isUpvote) == IF isUpvote THEN 1 ELSE -1

\* SELECT vote FROM votes WHERE user_id = $uid AND question_id = $qid
ExistingVote(vs, uid, qid) ==
    {r \in vs : r.user_id = uid /\ r.question_id = qid}

\* the comparison never succeeds (existing, the row, compared with the number)
SameVoteNever(existing, voteVal) == FALSE

\* existing.vote === voteVal
SameVote(existing, voteVal) == \E r \in existing : r.vote = voteVal

\* a changed vote written as a further row, the old one left in place
UpdateVoteInsert(vs, uid, qid, voteVal) ==
    vs \cup {[user_id |-> uid, question_id |-> qid, vote |-> voteVal]}

\* UPDATE votes SET vote = $vote WHERE user_id = $uid AND question_id = $qid
UpdateVote(vs, uid, qid, voteVal) ==
    {IF r.user_id = uid /\ r.question_id = qid
     THEN [r EXCEPT !.vote = voteVal] ELSE r : r \in vs}

\* INSERT INTO votes (user_id, question_id, vote) VALUES ($uid, $qid, $vote)
InsertVote(vs, uid, qid, voteVal) ==
    vs \cup {[user_id |-> uid, question_id |-> qid, vote |-> voteVal]}

\* a changed vote counted as a new one: the old counter is not decremented
FlipCountsNoDecrement(q, isUpvote) ==
    IF isUpvote
    THEN [q EXCEPT !.thumbs_up = @ + 1]
    ELSE [q EXCEPT !.thumbs_down = @ + 1]

\* the counter update of a changed vote
FlipCounts(q, isUpvote) ==
    IF isUpvote
    THEN [q EXCEPT !.thumbs_up = @ + 1, !.thumbs_down = @ - 1]
    ELSE [q EXCEPT !.thumbs_down = @ + 1, !.thumbs_up = @ - 1]

\* the counter update of a new vote
NewCounts(q, isUpvote) ==
    IF isUpvote
    THEN [q EXCEPT !.thumbs_up = @ + 1]
    ELSE [q EXCEPT !.thumbs_down = @ + 1]

\* UPDATE questions SET ... WHERE id = $qid: no row, no change
UpdateWhereId(qs, qid, row) ==
    [id \in DOMAIN qs |-> IF id = qid THEN row ELSE qs[id]]

\* the votes table after addVote(userId, questionId, isUpvote)
VotesAfter(vs, userId, questionId, isUpvote) ==
    LET existing == ExistingVote(vs, userId, questionId)
    IN  IF existing # {}
        THEN IF SameVote(existing, VoteVal(isUpvote))
             THEN vs
             ELSE UpdateVote(vs, userId, questionId, VoteVal(isUpvote))
        ELSE InsertVote(vs, userId, questionId, VoteVal(isUpvote))

\* the questions table after addVote(userId, questionId, isUpvote)
QuestionsAfter(qs, vs, userId, questionId, isUpvote) ==
    LET existing == ExistingVote(vs, userId, questionId)
    IN  IF questionId \notin DOMAIN qs
        THEN qs
        ELSE IF existing # {}
             THEN IF SameVote(existing, VoteVal(isUpvote))
                  THEN qs
                  ELSE UpdateWhereId(qs, questionId,
                                     FlipCounts(qs[questionId], isUpvote))
             ELSE UpdateWhereId(qs, questionId,
                                NewCounts(qs[questionId], isUpvote))

\* the stored vote of (uid, qid): 1, -1, or 0 when there is no row
StoredVote(vs, uid, qid) ==
    IF ExistingVote(vs, uid, qid) = {} THEN 0
    ELSE (CHOOSE r \in ExistingVote(vs, uid, qid) : TRUE).vote

\* the branch addVote takes: no change, changed vote, or new vote
VotePath(vs, userId, questionId, isUpvote) ==
    IF ExistingVote(vs, userId, questionId) # {}
    THEN IF SameVote(ExistingVote(vs, userId, questionId), VoteVal(isUpvote))
         THEN "same" ELSE "flip"
    ELSE "new"

\* getQuestionStats (db.ts): the counters of the row, zeros when there is none
getQuestionStats(qs, questionId) ==
    IF questionId \in DOMAIN qs
    THEN [thumbs_up |-> qs[questionId].thumbs_up,
          thumbs_down |-> qs[questionId].thumbs_down]
    ELSE [thumbs_up |-> 0, thumbs_down |-> 0]

\* Math.round(num / den) for den > 0: the nearest integer, halves upwards
MathRound(num, den) == (2 * num + den) \div (2 * den)

\* the rating both callback handlers put in the caption
SurfacedRating(stats) ==
    LET totalVotes == stats.thumbs_up + stats.thumbs_down
    IN  IF totalVotes > 0 THEN MathRound(stats.thumbs_up * 100, totalVotes) ELSE 0

\* the vote callback: addVote (db.ts), then the rating for the caption
addVote(userId, questionId, isUpvote) ==
    /\ Started(phase)
    /\ votes' = VotesAfter(votes, userId, questionId, isUpvote)
    /\ questions' = QuestionsAfter(questions, votes, userId, questionId, isUpvote)
    /\ op' = [NoOp EXCEPT !.name = "addVote", !.userId = userId,
                          !.questionId = questionId, !.isUpvote = isUpvote,
                          !.path = VotePath(votes, userId, questionId, isUpvote),
                          !.rating = SurfacedRating(getQuestionStats(
                              QuestionsAfter(questions, votes, userId, questionId, isUpvote),
                              questionId))]
    /\ UNCHANGED <<sent, images, nextId, user_progress, now, phase, todo, gen, conc, hist>>

\* ---- addVote (db.ts), statement by statement, for callbacks that arrive together ----
\* a vote callback arrives; the first of a group finds the tables as they are
voteArrives(s, userId, questionId, isUpvote) ==
    /\ Started(phase)
    /\ conc.calls[s].pc = "idle"
    /\ conc' = [calls |-> [conc.calls EXCEPT ![s] =
                              [NoCall EXCEPT !.pc = "pending", !.userId = userId,
                                             !.questionId = questionId,
                                             !.isUpvote = isUpvote]],
                base |-> IF \A o \in Slots : conc.calls[o].pc = "idle"
                         THEN [votes |-> votes, questions |-> questions]
                         ELSE conc.base]
    /\ op' = [NoOp EXCEPT !.name = "voteArrives", !.userId = userId,
                          !.questionId = questionId, !.isUpvote = isUpvote]
    /\ UNCHANGED <<sent, images, questions, nextId, votes, user_progress, now, phase, todo, gen, hist>>

\* callbacks whose addVote could start between the SELECT and the writes of another
InterleavedCalls(calls, s) == TRUE
\* addVote has no await and bun:sqlite is synchronous: the body of one call
\* runs from its SELECT to its return before another handler runs
RunToCompletion(calls, s) == \A o \in Slots \ {s} : calls[o].pc # "read"

\* the SELECT of addVote
addVoteRead(s) ==
    /\ conc.calls[s].pc = "pending"
    /\ RunToCompletion(conc.calls, s)
    /\ LET c == conc.calls[s]
       IN  /\ conc' = [conc EXCEPT !.calls[s].pc = "read",
                                   !.calls[s].existing =
                                       ExistingVote(votes, c.userId, c.questionId)]
           /\ op' = [NoOp EXCEPT !.name = "addVoteRead", !.userId = c.userId,
                                 !.questionId = c.questionId, !.isUpvote = c.isUpvote]
    /\ UNCHANGED <<sent, images, questions, nextId, votes, user_progress, now, phase, todo, gen, hist>>

\* the rest of addVote, on the row the SELECT found: return, or one of the two
\* transactions; an INSERT on a key that is stored throws and the transaction
\* is rolled back
addVoteWrite(s) ==
    /\ conc.calls[s].pc = "read"
    /\ LET c == conc.calls[s]
           voteVal == VoteVal(c.isUpvote)
           ghost == [NoOp EXCEPT !.name = "addVoteWrite", !.userId = c.userId,
                                 !.questionId = c.questionId, !.isUpvote = c.isUpvote]
           counted(row) == IF c.questionId \in DOMAIN questions
                           THEN UpdateWhereId(questions, c.questionId, row)
                           ELSE questions
       IN  IF c.existing # {}
           THEN IF SameVote(c.existing, voteVal)
                THEN /\ UNCHANGED <<sent, images, votes, questions, hist>>
                     /\ op' = [ghost EXCEPT !.path = "same"]
                ELSE /\ votes' = UpdateVote(votes, c.userId, c.questionId, voteVal)
                     /\ questions' = IF c.questionId \in DOMAIN questions
                                      THEN counted(FlipCounts(questions[c.questionId],
                                                              c.isUpvote))
                                      ELSE questions
                     /\ op' = [ghost EXCEPT !.path = "flip"]
           ELSE IF ExistingVote(votes, c.userId, c.questionId) # {}
                THEN /\ UNCHANGED <<sent, images, votes, questions, hist>>
                     /\ op' = [ghost EXCEPT !.path = "error"]
                ELSE /\ votes' = InsertVote(votes, c.userId, c.questionId, voteVal)
                     /\ questions' = IF c.questionId \in DOMAIN questions
                                      THEN counted(NewCounts(questions[c.questionId],
                                                             c.isUpvote))
                                      ELSE questions
                     /\ op' = [ghost EXCEPT !.path = "new"]
    /\ conc' = [conc EXCEPT !.calls[s].pc = "done"]
    /\ UNCHANGED <<sent, images, nextId, user_progress, now, phase, todo, gen, hist>>

\* the answer callback on a correct answer: it reads the counters for the caption
answer(questionId) ==
    /\ Started(phase)
    /\ op' = [NoOp EXCEPT !.name = "answer", !.questionId = questionId,
                          !.rating = SurfacedRating(getQuestionStats(questions, questionId))]
    /\ UNCHANGED <<sent, images, questions, nextId, votes, user_progress, now, phase, todo, gen, conc, hist>>

\* ---- the rating of a question (db.ts) ----
\* a ratio without the smoothing terms
WeightUnsmoothed(row) ==
    [num |-> row.thumbs_up, den |-> row.thumbs_up + row.thumbs_down]
\* the rating column of getQuestions and the weight column of getRandomQuestion,
\* (thumbs_up + 1.0) / (thumbs_up + thumbs_down + 2.0), as numerator and denominator
Weight(row) ==
    [num |-> row.thumbs_up + 1, den |-> row.thumbs_up + row.thumbs_down + 2]

\* ---- getQuestions (db.ts) as called by the listing of the bot module ----
\* more users than Users, so that the counters grow
NumRaters == 4
Raters == 1..NumRaters
\* pageSize, as the listing passes it
PageSize == 5
Pages == 1..2

\* ORDER BY rating ASC, id DESC: a comes before b
ListedBefore(qs, a, b) ==
    LET wa == Weight(qs[a])
        wb == Weight(qs[b])
    IN  \/ wa.num * wb.den < wb.num * wa.den
        \/ wa.num * wb.den = wb.num * wa.den /\ a > b

RECURSIVE Listed(_, _)
Listed(qs, ids) ==
    IF ids = {} THEN <<>>
    ELSE LET first == CHOOSE a \in ids : \A b \in ids \ {a} : ListedBefore(qs, a, b)
         IN  <<[id |-> first, thumbs_up |-> qs[first].thumbs_up,
                thumbs_down |-> qs[first].thumbs_down, rating |-> Weight(qs[first])]>>
                 \o Listed(qs, ids \ {first})

\* LIMIT $limit OFFSET $offset
LimitOffset(rows, limit, offset) ==
    SubSeq(rows, offset + 1, IF offset + limit < Len(rows) THEN offset + limit ELSE Len(rows))

getQuestions(studyKey, page) ==
    /\ Started(phase)
    /\ LET offset == (page - 1) * PageSize
           rows == Listed(questions, {id \in DOMAIN questions : questions[id].study_key = studyKey})
       IN  op' = [NoOp EXCEPT !.name = "getQuestions", !.studyKey = studyKey,
                              !.rows = LimitOffset(rows, PageSize, offset)]
    /\ UNCHANGED <<sent, images, questions, nextId, votes, user_progress, now, phase, todo, gen, conc, hist>>

\* ---- getRandomQuestion (db.ts) ----
\* the join without its user_id condition: anyone's row counts
ExposedToAnyone(up, userId, id) ==
    \E r \in up : r.question_id = id

\* a join that takes the rows of every user
JoinOnAnyUser(r, userId) == r.user_id \in Users
\* up.user_id = $userId, in the ON clause of the first query and the WHERE
\* clause of the second
JoinOnUser(r, userId) == r.user_id = userId

\* a user_progress row of this user for the question; last_used_at is never
\* NULL, every row is written with Date.now()
Exposed(up, userId, id) ==
    \E r \in up : JoinOnUser(r, userId) /\ r.question_id = id

\* ORDER BY weight ASC, as in the listing of getQuestions
WeightLE(a, b) ==
    (a.thumbs_up + 1) * (b.thumbs_up + b.thumbs_down + 2)
        <= (b.thumbs_up + 1) * (a.thumbs_up + a.thumbs_down + 2)

\* weight of a >= weight of b, weight = (thumbs_up + 1.0) / (thumbs_up + thumbs_down + 2.0);
\* thumbs_up + thumbs_down never decreases, so both denominators are >= 2 and
\* the comparison is the one of the cross products
WeightGE(a, b) ==
    Weight(a).num * Weight(b).den >= Weight(b).num * Weight(a).den

\* the first query without its IS NULL condition: every question of the key
UnexposedOrNot(qs, up, studyKey, userId) ==
    {id \in DOMAIN qs : qs[id].study_key = studyKey}
\* rows of the first query before ORDER BY: questions of the key never used by this user
Unexposed(qs, up, studyKey, userId) ==
    {id \in DOMAIN qs : qs[id].study_key = studyKey /\ ~Exposed(up, userId, id)}

\* ORDER BY weight DESC LIMIT 1 without RANDOM(): of the best rows, the oldest id
NoveltyQueryLowestId(qs, up, studyKey, userId) ==
    LET rows == Unexposed(qs, up, studyKey, userId)
        best == {id \in rows : \A o \in rows : WeightGE(qs[id], qs[o])}
    IN  {id \in best : \A o \in best : id <= o}
\* ORDER BY weight DESC, RANDOM() LIMIT 1: the rows the first query can return
NoveltyQuery(qs, up, studyKey, userId) ==
    LET rows == Unexposed(qs, up, studyKey, userId)
    IN  {id \in rows : \A o \in rows : WeightGE(qs[id], qs[o])}

\* the join with the IS NULL condition of the first query kept: no row
LruRowsNull(qs, up, studyKey, userId) == {}
\* rows of the second query before ORDER BY: the join of questions and user_progress
LruRows(qs, up, studyKey, userId) ==
    {r \in up : /\ JoinOnUser(r, userId)
                /\ r.question_id \in DOMAIN qs
                /\ qs[r.question_id].study_key = studyKey}

\* ORDER BY up.last_used_at DESC: the most recently used row
LruQueryNewest(qs, up, studyKey, userId) ==
    LET rows == {r \in up : /\ r.user_id = userId
                            /\ r.question_id \in DOMAIN qs
                            /\ qs[r.question_id].study_key = studyKey}
    IN  {r.question_id : r \in {x \in rows :
                                  \A o \in rows : x.last_used_at >= o.last_used_at}}

\* ORDER BY up.last_used_at ASC LIMIT 1: the rows the second query can return
LruQuery(qs, up, studyKey, userId) ==
    LET rows == LruRows(qs, up, studyKey, userId)
    IN  {r.question_id : r \in {x \in rows :
                                  \A o \in rows : x.last_used_at <= o.last_used_at}}

\* the third query without its WHERE clause
AnyQueryAllKeys(qs, studyKey) == DOMAIN qs
\* SELECT * FROM questions WHERE study_key = $studyKey LIMIT 1
AnyQuery(qs, studyKey) == {id \in DOMAIN qs : qs[id].study_key = studyKey}

\* which of the three queries supplies the result
Path(qs, up, studyKey, userId) ==
    IF NoveltyQuery(qs, up, studyKey, userId) # {} THEN "novelty"
    ELSE IF LruQuery(qs, up, studyKey, userId) # {} THEN "lru"
    ELSE IF AnyQuery(qs, studyKey) # {} THEN "fallback"
    ELSE "none"

\* the queries in another order: the least recently used row before the new ones
ResultsLruFirst(qs, up, studyKey, userId) ==
    IF LruQuery(qs, up, studyKey, userId) # {}
    THEN LruQuery(qs, up, studyKey, userId)
    ELSE IF NoveltyQuery(qs, up, studyKey, userId) # {}
         THEN NoveltyQuery(qs, up, studyKey, userId)
         ELSE AnyQuery(qs, studyKey)
\* the ids getRandomQuestion can return; empty when it returns null
Results(qs, up, studyKey, userId) ==
    IF NoveltyQuery(qs, up, studyKey, userId) # {}
    THEN NoveltyQuery(qs, up, studyKey, userId)
    ELSE IF LruQuery(qs, up, studyKey, userId) # {}
         THEN LruQuery(qs, up, studyKey, userId)
         ELSE AnyQuery(qs, studyKey)

\* a table without the primary key: the conflict never arises, every row stays
KeptRowsAll(up, userId, questionId) == up
\* PRIMARY KEY (user_id, question_id): the rows the upsert does not conflict with
KeptRows(up, userId, questionId) ==
    {r \in up : ~(r.user_id = userId /\ r.question_id = questionId)}

\* $userId bound to a fixed user
ProgressRowFirstUser(userId, questionId, t) ==
    [user_id |-> 1, question_id |-> questionId, last_used_at |-> t]
\* VALUES ($userId, $questionId, $now)
ProgressRow(userId, questionId, t) ==
    [user_id |-> userId, question_id |-> questionId, last_used_at |-> t]

\* INSERT OR IGNORE: a row that exists keeps its last_used_at
UpsertIgnore(up, userId, questionId, t) ==
    IF \E r \in up : r.user_id = userId /\ r.question_id = questionId
    THEN up
    ELSE up \cup {[user_id |-> userId, question_id |-> questionId, last_used_at |-> t]}
\* INSERT INTO user_progress ... ON CONFLICT(user_id, question_id) DO UPDATE SET last_used_at = $now
Upsert(up, userId, questionId, t) ==
    KeptRows(up, userId, questionId) \cup {ProgressRow(userId, questionId, t)}

\* last_used_at of the user's row for the question, 0 when there is none
LastUsed(up, userId, id) ==
    IF \E r \in up : r.user_id = userId /\ r.question_id = id
    THEN (CHOOSE r \in up : r.user_id = userId /\ r.question_id = id).last_used_at
    ELSE 0

\* every question of the key has a row of this user, with pairwise distinct last_used_at
AllExposedDistinct(qs, up, studyKey, userId) ==
    /\ AnyQuery(qs, studyKey) # {}
    /\ \A id \in AnyQuery(qs, studyKey) : Exposed(up, userId, id)
    /\ \A a, b \in AnyQuery(qs, studyKey) :
          a # b => LastUsed(up, userId, a) # LastUsed(up, userId, b)

\* the questions of the key whose last_used_at is the n-th smallest (n = 1, 2)
NthOldest(qs, up, studyKey, userId, n) ==
    {id \in AnyQuery(qs, studyKey) :
        Cardinality({o \in AnyQuery(qs, studyKey) :
            LastUsed(up, userId, o) < LastUsed(up, userId, id)}) = n - 1}

\* fs.existsSync(getQuestionImagePath(questionId))
imageExists(imgs, questionId) == questionId \in DOMAIN imgs

\* t is what Date.now() returns for the upsert: the clock has millisecond
\* resolution, so it is the value of the previous call or a later one
\* sendRandomQuestion (the bot module): getRandomQuestion (db.ts) at time t,
\* then the delivery of the question, which succeeds or fails (the renderer or
\* the send throws); nothing is undone when it fails
sendRandomQuestion(studyKey, userId, t, delivers) ==
    /\ Started(phase)
    /\ now' = t
    /\ LET res == Results(questions, user_progress, studyKey, userId)
           ghost == [NoOp EXCEPT
                        !.name = "getRandomQuestion",
                        !.userId = userId,
                        !.studyKey = studyKey,
                        !.path = Path(questions, user_progress, studyKey, userId),
                        !.allDistinct =
                            AllExposedDistinct(questions, user_progress, studyKey, userId),
                        !.second =
                            IF /\ AllExposedDistinct(questions, user_progress, studyKey, userId)
                               /\ Cardinality(AnyQuery(questions, studyKey)) >= 2
                            THEN CHOOSE id \in NthOldest(questions, user_progress,
                                                         studyKey, userId, 2) : TRUE
                            ELSE Null,
                        !.expected =
                            IF /\ op.name = "getRandomQuestion"
                               /\ op.userId = userId
                               /\ op.studyKey = studyKey
                            THEN op.second ELSE Null,
                        !.after =
                            IF /\ op.name = "getRandomQuestion"
                               /\ op.userId = userId
                               /\ op.studyKey = studyKey
                               /\ ~op.delivered
                            THEN op.questionId ELSE Null]
       IN  IF res = {}
           THEN /\ user_progress' = user_progress
                /\ op' = [ghost EXCEPT !.questionId = Null, !.delivered = TRUE]
           ELSE \E id \in res :
                /\ user_progress' = Upsert(user_progress, userId, id, t)
                /\ op' = [ghost EXCEPT !.questionId = id, !.delivered = delivers]
    /\ UNCHANGED <<sent, questions, nextId, votes, phase, todo, gen, conc>>

\* a call whose delivery succeeds, at the time of the call before it or later
getRandomQuestion(studyKey, userId, t) ==
    /\ t \in {now, now + 1}
    /\ t <= MaxTime
    /\ sendRandomQuestion(studyKey, userId, t, TRUE)
    /\ UNCHANGED <<hist, images>>

\* sendRandomQuestion with the image store. imageExists(question.id): the
\* stored file is sent as it is. Otherwise the image is rendered from the
\* options just read and saved; when that throws the user gets the error
\* message. The send itself may throw after the image was saved.
sendQuestionPhoto(studyKey, userId, t) ==
    /\ t \in {now, now + 1}
    /\ t <= MaxTime
    /\ \E delivers \in BOOLEAN :
         /\ sendRandomQuestion(studyKey, userId, t, delivers)
         /\ UNCHANGED hist
         /\ LET id == op'.questionId
            IN  IF id = Null \/ imageExists(images, id)
                THEN images' = images
                ELSE \E saved \in BOOLEAN :
                       /\ delivers => saved
                       /\ images' = IF saved
                                    THEN saveQuestionImage(images, id,
                                            JsonParse(questions[id].options))
                                    ELSE images

\* questions stored, and the last clock value, while calls are recorded
MaxCover == 3
MaxCoverTime == 7

\* a call at a time later than every call before it, recorded with the
\* questions the key had
getRandomQuestionLater(studyKey, userId) ==
    /\ now < MaxCoverTime
    /\ sendRandomQuestion(studyKey, userId, now + 1, TRUE)
    /\ hist' = Append(hist, [userId |-> userId, studyKey |-> studyKey,
                             questionId |-> op'.questionId,
                             under |-> AnyQuery(questions, studyKey)])
    /\ UNCHANGED images

\* calls recorded while removals go on
MaxHist == 3

\* a call at the time of the call before it or later, recorded
getRandomQuestionRecorded(studyKey, userId, t) ==
    /\ t \in {now, now + 1}
    /\ t <= MaxTime
    /\ Len(hist) < MaxHist
    /\ sendRandomQuestion(studyKey, userId, t, TRUE)
    /\ hist' = Append(hist, [userId |-> userId, studyKey |-> studyKey,
                             questionId |-> op'.questionId,
                             under |-> AnyQuery(questions, studyKey)])
    /\ UNCHANGED images

\* ---- the start-up shuffle (the bot module, CLEAN_RIGHT_ANSWERS) ----
\* getAllQuestionsRaw(): the rows in rowid order
RECURSIVE RowsFrom(_, _)
RowsFrom(qs, id) ==
    IF id >= nextId THEN <<>>
    ELSE IF id \in DOMAIN qs
         THEN <<[id |-> id, options |-> qs[id].options,
                 correct_index |-> qs[id].correct_index]>> \o RowsFrom(qs, id + 1)
         ELSE RowsFrom(qs, id + 1)

getAllQuestionsRaw(qs) == RowsFrom(qs, 1)

\* options[i] of a JavaScript array, i zero-based: undefined outside the array
At(options, i) ==
    IF i >= 0 /\ i < Len(options) THEN options[i + 1] ELSE Undefined

\* options[i] = options[j] alone: the element at i is lost
SwapOverwrite(options, i, j) ==
    [options EXCEPT ![i + 1] = options[j + 1]]

\* [options[i], options[j]] = [options[j], options[i]]
Swap(options, i, j) ==
    [options EXCEPT ![i + 1] = options[j + 1], ![j + 1] = options[i + 1]]

\* the draws of Math.floor(Math.random() * (i + 1)) for i = n - 1 .. 1
Draws(n) == {js \in [1..(n - 1) -> 0..(n - 1)] : \A i \in 1..(n - 1) : js[i] <= i}

\* for (let i = options.length - 1; i > 0; i--) swap(i, j)
RECURSIVE ShuffleFrom(_, _, _)
ShuffleFrom(options, i, js) ==
    IF i <= 0 THEN options
    ELSE ShuffleFrom(Swap(options, i, js[i]), i - 1, js)

FisherYates(options, js) == ShuffleFrom(options, Len(options) - 1, js)

\* Array.prototype.lastIndexOf: the last position, or -1
LastIndexOf(options, x) ==
    IF \E i \in 1..Len(options) : options[i] = x
    THEN (CHOOSE i \in 1..Len(options) :
            /\ options[i] = x
            /\ \A k \in (i + 1)..Len(options) : options[k] # x) - 1
    ELSE -1
\* Array.prototype.indexOf: the first position, or -1
IndexOf(options, x) ==
    IF \E i \in 1..Len(options) : options[i] = x
    THEN (CHOOSE i \in 1..Len(options) :
            /\ options[i] = x
            /\ \A k \in 1..(i - 1) : options[k] # x) - 1
    ELSE -1

\* the options written by an UPDATE of their own: correct_index is not yet set
SetOptionsAlone(row, options, correctIndex) ==
    [row EXCEPT !.options = JsonStringify(options)]
\* SET options = $options, correct_index = $correctIndex
SetOptions(row, options, correctIndex) ==
    [row EXCEPT !.options = JsonStringify(options),
                !.correct_index = correctIndex]

\* the UPDATE without its WHERE clause: every row is set
updateEveryQuestion(qs, id, options, correctIndex) ==
    [i \in DOMAIN qs |-> SetOptions(qs[i], options, correctIndex)]
\* UPDATE questions SET options = $options, correct_index = $correctIndex WHERE id = $id
updateQuestionOptions(qs, id, options, correctIndex) ==
    [i \in DOMAIN qs |->
        IF i = id THEN SetOptions(qs[i], options, correctIndex) ELSE qs[i]]

\* the process starts; with CLEAN_RIGHT_ANSWERS=true the shuffle runs before
\* bot.start(). The process it replaces may have been stopped in the middle of
\* the loop: op.path tells that rows were left, op.questionId the question it
\* had updated last
Restart(clean) ==
    /\ phase' = IF clean THEN "shuffle" ELSE "serving"
    /\ todo' = IF clean THEN getAllQuestionsRaw(questions) ELSE <<>>
    /\ op' = [NoOp EXCEPT
                !.name = "restart",
                !.path = IF phase = "shuffle" /\ todo # <<>>
                         THEN "interrupted" ELSE "none",
                !.questionId = IF op.name = "shuffle" /\ op.path = "updated"
                               THEN op.questionId ELSE Null]
    /\ UNCHANGED <<sent, images, questions, nextId, votes, user_progress, now, gen, conc, hist>>

\* one iteration of the loop over the rows. When the parsed options are no
\* array, options[q.correct_index] (null) or options.indexOf (an object, a
\* number) throws a TypeError. updateQuestionOptions may throw (the store
\* fails). Nothing in the loop catches either, so the catch around the loop
\* ends the batch. The renderer and the image store may throw: the try inside
\* the loop catches that and the loop goes on. What becomes of the
\* stored image is said by the two steps below.
ShuffleRow ==
    /\ phase = "shuffle"
    /\ todo # <<>>
    /\ LET q == Head(todo)
       IN  IF ~IsArray(q.options)
           THEN /\ questions' = questions
                /\ todo' = <<>>
                /\ op' = [NoOp EXCEPT !.name = "shuffle", !.questionId = q.id,
                                      !.path = "threw"]
           ELSE
           LET options == JsonParse(q.options)
               correctAnswer == At(options, q.correct_index)
           IN  \E js \in Draws(Len(options)) :
                 LET shuffled == FisherYates(options, js)
                     newCorrectIndex == IndexOf(shuffled, correctAnswer)
                 IN  IF newCorrectIndex = -1
                     THEN /\ questions' = questions
                          /\ todo' = Tail(todo)
                          /\ op' = [NoOp EXCEPT !.name = "shuffle", !.questionId = q.id,
                                                !.path = "skipped"]
                     ELSE \/ /\ questions' = questions
                             /\ todo' = <<>>
                             /\ op' = [NoOp EXCEPT !.name = "shuffle", !.questionId = q.id,
                                                   !.path = "aborted"]
                          \/ \E renders \in BOOLEAN :
                             /\ questions' = updateQuestionOptions(questions, q.id,
                                                                   shuffled, newCorrectIndex)
                             /\ todo' = Tail(todo)
                             /\ op' = [NoOp EXCEPT !.name = "shuffle", !.questionId = q.id,
                                                   !.path = "updated",
                                                   !.moved = (shuffled # options),
                                                   !.index = q.correct_index,
                                                   !.render = IF renders THEN "ok" ELSE "failed"]
    /\ UNCHANGED <<sent, nextId, votes, user_progress, now, phase, gen, conc, hist>>

\* an iteration where the image store is left out of the picture
ShuffleStep ==
    /\ ShuffleRow
    /\ UNCHANGED images

\* an iteration with the image store: after the update,
\* renderQuestionToImage(q.question_text, options) with the shuffled options
\* and saveQuestionImage; when either throws, the image stored before stays
ShuffleStepImage ==
    /\ ShuffleRow
    /\ images' = IF op'.path = "updated" /\ op'.render = "ok"
                 THEN saveQuestionImage(images, op'.questionId,
                                        JsonParse(questions'[op'.questionId].options))
                 ELSE images

\* the loop is over: bot.start()
ShuffleDone ==
    /\ phase = "shuffle"
    /\ todo = <<>>
    /\ phase' = "serving"
    /\ op' = [NoOp EXCEPT !.name = "start"]
    /\ UNCHANGED <<sent, images, questions, nextId, votes, user_progress, now, todo, gen, conc, hist>>

\* ---- generateQuestions and filterBadQuestions (the generation pipeline) ----
\* distinct candidate questions a draft is made of
NumDraftQ == 2
\* longest draft a completion returns
MaxDraft == 3
\* longest index list the validation completion returns
MaxIdx == 2

\* the two copies of the pipeline in the repository: "ai" puts only the
\* question texts in the validation prompt, "part_000" the whole candidates
Variants == {"ai", "part_000"}

EmptyList == JsonValue("list", <<>>, 0)
NonLists ==
    {JsonValue("object", <<>>, 0), JsonValue("number", <<>>, 0),
     JsonValue("null", <<>>, 0), JsonValue("string", <<>>, 0),
     JsonValue("string", <<>>, 1)}

SeqsUpTo(S, n) == UNION {[1..k -> S] : k \in 0..n}

DraftCandidates ==
    {[question |-> q, options |-> <<1, 2>>, correct_index |-> 0] : q \in 1..NumDraftQ}
DraftValues ==
    {JsonValue("list", d, 0) : d \in SeqsUpTo(DraftCandidates, MaxDraft)} \cup NonLists
\* indices the validation completion may name, in range or not
IndexValues ==
    {JsonValue("list", l, 0) : l \in SeqsUpTo(-1..MaxDraft, MaxIdx)} \cup NonLists

\* the text of a reply, as pieces: an opening fence or none, a body (JSON
\* text of a value, text that is no JSON, or white space), a closing fence or
\* none
Piece(kind, val) == [kind |-> kind, val |-> val]
Opening == {<<>>, <<Piece("fence-json", NoValue)>>, <<Piece("fence", NoValue)>>}
Closing == {<<>>, <<Piece("fence", NoValue)>>}
Bodies(values) ==
    {<<Piece("json", v)>> : v \in values}
        \cup {<<Piece("text", NoValue)>>, <<Piece(" ", NoValue)>>}
Contents(values) ==
    {<<>>} \cup {a \o b \o c : a \in Opening, b \in Bodies(values), c \in Closing}
Completions(values) ==
    {Completion(TRUE, <<>>)} \cup {Completion(FALSE, c) : c \in Contents(values)}

\* String.prototype.trim
RECURSIVE TrimStart(_)
TrimStart(s) ==
    IF s # <<>> /\ Head(s).kind = " " THEN TrimStart(Tail(s)) ELSE s
RECURSIVE TrimEnd(_)
TrimEnd(s) ==
    IF s # <<>> /\ s[Len(s)].kind = " " THEN TrimEnd(SubSeq(s, 1, Len(s) - 1)) ELSE s
Trim(s) == TrimEnd(TrimStart(s))

Keeps(fence, piece) == piece.kind # fence
\* the two replace calls that drop the code fences, then trim
CleanContent(content) ==
    Trim(SelectSeq(SelectSeq(content, LAMBDA p : Keeps("fence-json", p)),
                   LAMBDA p : Keeps("fence", p)))

\* JSON.parse: the value, or NoValue when it throws
JsonParseText(clean) ==
    IF Len(clean) = 1 /\ clean[1].kind = "json" THEN clean[1].val ELSE NoValue

\* a length test that never holds
LengthIsZeroNever(v) == FALSE
\* x.length === 0
LengthIsZero(v) ==
    \/ v.kind = "list" /\ Len(v.items) = 0
    \/ v.kind = "string" /\ v.len = 0

\* a validation that drops every candidate where it should keep them
FailClosed(draft) == EmptyList
\* what filterBadQuestions gives back where it keeps every candidate
FailOpen(draft) == draft

\* an index test that counts positions from one
IncludesOneBased(list, i) == \E j \in 1..Len(list) : list[j] = i + 1
Includes(list, i) == \E j \in 1..Len(list) : list[j] = i
\* questions.filter((_, i) => goodIndices.includes(i))
RECURSIVE FilterFrom(_, _, _)
FilterFrom(items, goodIndices, i) ==
    IF i > Len(items) THEN <<>>
    ELSE (IF Includes(goodIndices, i - 1) THEN <<items[i]>> ELSE <<>>)
             \o FilterFrom(items, goodIndices, i + 1)
Filter(draft, goodIndices) ==
    JsonValue("list", FilterFrom(draft.items, goodIndices.items, 1), 0)

\* questions.map((q, i) => ({ index: i, question: q.question }))
IndexAndQuestion(items) ==
    [i \in 1..Len(items) |-> [index |-> i - 1, question |-> items[i].question]]
\* the prompt filterBadQuestions builds: "ai" lists the position and the
\* question text of every candidate; "part_000" has the source text and
\* JSON.stringify(questions)
ValidationPrompt(variant, draft) ==
    IF variant = "ai"
    THEN [text |-> FALSE,
          review |-> JsonValue("list", IndexAndQuestion(draft.items), 0)]
    ELSE [text |-> TRUE, review |-> draft]

\* generateQuestions is called and issues the draft completion
Generate(variant) ==
    /\ gen.pc \in {"idle", "done"}
    /\ gen' = [NoGen EXCEPT !.pc = "drafting", !.variant = variant, !.calls1 = 1]
    /\ UNCHANGED <<sent, images, questions, nextId, votes, user_progress, now, phase, todo, op, conc, hist>>

\* the draft completion answers (or throws): generateQuestions up to the point
\* where filterBadQuestions issues the validation completion
DraftReply(completion) ==
    /\ gen.pc = "drafting"
    /\ LET content == Trim(completion.content)
           parsed == JsonParseText(CleanContent(content))
           returns(v) == [gen EXCEPT !.pc = "done", !.reply1 = completion,
                                     !.draft = parsed, !.result = v]
       IN  IF completion.throws \/ content = <<>> THEN
               gen' = [returns(EmptyList) EXCEPT !.draft = NoValue]
           ELSE IF parsed = NoValue \/ parsed.kind = "null" THEN
               gen' = returns(EmptyList)
           ELSE IF LengthIsZero(parsed) THEN
               gen' = returns(EmptyList)
           ELSE IF gen.variant = "ai" /\ parsed.kind # "list" THEN
               gen' = returns(EmptyList)
           ELSE
               gen' = [gen EXCEPT !.pc = "validating", !.reply1 = completion,
                                  !.draft = parsed, !.calls2 = gen.calls2 + 1,
                                  !.prompt = ValidationPrompt(gen.variant, parsed)]
    /\ UNCHANGED <<sent, images, questions, nextId, votes, user_progress, now, phase, todo, op, conc, hist>>

\* the validation completion answers (or throws): the rest of
\* filterBadQuestions, whose result generateQuestions returns
ValidationReply(completion) ==
    /\ gen.pc = "validating"
    /\ LET draft == gen.draft
           content == Trim(completion.content)
           goodIndices == JsonParseText(CleanContent(content))
           returns(v) == [gen EXCEPT !.pc = "done", !.reply2 = completion,
                                     !.result = v]
       IN  IF completion.throws \/ content = <<>> THEN
               gen' = returns(FailOpen(draft))
           ELSE IF goodIndices = NoValue \/ goodIndices.kind # "list" THEN
               gen' = returns(FailOpen(draft))
           ELSE IF draft.kind # "list" THEN
               gen' = returns(FailOpen(draft))
           ELSE
               gen' = returns(Filter(draft, goodIndices))
    /\ UNCHANGED <<sent, images, questions, nextId, votes, user_progress, now, phase, todo, op, conc, hist>>

\* ---- specifications ----
\* every handler, candidates of any shape
Next ==
    \/ \E k \in Keys, c \in Candidates : saveQuestion(k, c.options, c.correct_index)
    \/ \E u \in Users, q \in Ids, b \in BOOLEAN : addVote(u, q, b)
    \/ \E k \in Keys : clearQuestions(k)
    \/ \E q \in Ids : deleteQuestion(q)
    \/ \E k \in Keys, u \in Users, t \in 1..MaxTime : getRandomQuestion(k, u, t)
    \/ \E clean \in BOOLEAN : Restart(clean)
    \/ ShuffleStep
    \/ ShuffleDone
    \/ \E v \in Variants : Generate(v)
    \/ \E c \in Completions(DraftValues) : DraftReply(c)
    \/ \E c \in Completions(IndexValues) : ValidationReply(c)
    \/ \E q \in Ids : answer(q)
    \/ \E k \in Keys, p \in Pages : getQuestions(k, p)
    \/ \E s \in Slots, u \in Users, q \in Ids, b \in BOOLEAN : voteArrives(s, u, q, b)
    \/ \E s \in Slots : addVoteRead(s)
    \/ \E s \in Slots : addVoteWrite(s)

Spec == Init /\ [][Next]_vars

\* at most this many vote rows while the selection is explored
MaxVotes == 1

\* the vote ledger: the options of a question play no part
NextVote ==
    \/ \E k \in Keys, c \in PlainCandidates : saveQuestion(k, c.options, c.correct_index)
    \/ \E u \in Users, q \in Ids, b \in BOOLEAN : addVote(u, q, b)
    \/ \E k \in Keys : clearQuestions(k)
    \/ \E q \in Ids : deleteQuestion(q)

SpecVote == Init /\ [][NextVote]_vars

\* the selection: votes only set the ratings apart
NextSelect ==
    \/ \E k \in Keys, c \in PlainCandidates : saveQuestion(k, c.options, c.correct_index)
    \/ \E u \in Users, q \in Ids, b \in BOOLEAN :
          Cardinality(votes) < MaxVotes /\ addVote(u, q, b)
    \/ \E k \in Keys : clearQuestions(k)
    \/ \E k \in Keys, u \in Users, t \in 1..MaxTime : getRandomQuestion(k, u, t)

SpecSelect == Init /\ [][NextSelect]_vars

\* persistence and the shuffle: keys, votes and exposures play no part
NextShuffle ==
    \/ \E c \in Candidates : saveQuestion(1, c.options, c.correct_index)
    \/ \E clean \in BOOLEAN : Restart(clean)
    \/ ShuffleStep
    \/ ShuffleDone

SpecShuffle == Init /\ [][NextShuffle]_vars

\* options a completion may give a candidate: an array of up to two strings,
\* or a value that is no array
OptionValues ==
    {JsonValue("list", o, 0) : o \in {l \in OptionLists : Len(l) <= 2}}
        \cup {JsonValue("null", <<>>, 0), JsonValue("object", <<>>, 0),
              JsonValue("number", <<>>, 0)}

\* persistence of unchecked candidates and the shuffle
NextBatch ==
    \/ \E v \in OptionValues, ci \in 0..1 : saveQuestionValue(1, v, ci)
    \/ \E clean \in BOOLEAN : Restart(clean)
    \/ ShuffleStep
    \/ ShuffleDone

SpecBatch == Init /\ [][NextBatch]_vars

\* candidates with two and three options, one with the correct text twice
FrameCandidates ==
    [options : {<<1, 2>>, <<1, 2, 2>>}, correct_index : 0..1]

\* the shuffle of a store that holds votes and exposures of one user
NextFrame ==
    \/ \E c \in FrameCandidates : saveQuestion(1, c.options, c.correct_index)
    \/ \E q \in Ids, b \in BOOLEAN :
          Cardinality(votes) < MaxVotes /\ addVote(1, q, b)
    \/ getRandomQuestion(1, 1, now)
    \/ \E clean \in BOOLEAN : Restart(clean)
    \/ ShuffleStep
    \/ ShuffleDone

SpecFrame == Init /\ [][NextFrame]_vars

\* the start of the process and the updates that arrive around it
NextStart ==
    \/ \E c \in PlainCandidates : saveQuestion(1, c.options, c.correct_index)
    \/ \E q \in Ids, b \in BOOLEAN :
          Cardinality(votes) < MaxVotes /\ addVote(1, q, b)
    \/ getRandomQuestion(1, 1, now)
    \/ \E u \in Users, q \in Ids : delCallback(u, q)
    \/ \E clean \in BOOLEAN : Restart(clean)
    \/ ShuffleStep
    \/ ShuffleDone

SpecStart == Init /\ [][NextStart]_vars

\* questions with their images, through shuffles and deliveries to one user
NextImages ==
    \/ \E c \in PlainCandidates, renders \in BOOLEAN :
          saveQuestionAndImage(1, c.options, c.correct_index, renders)
    \/ \E t \in 1..MaxTime : sendQuestionPhoto(1, 1, t)
    \/ \E u \in Users, q \in Ids : delCallback(u, q)
    \/ \E clean \in BOOLEAN : Restart(clean)
    \/ ShuffleStepImage
    \/ ShuffleDone

SpecImages == Init /\ [][NextImages]_vars

\* removal of questions by the handlers, with the senders of the updates
NextAdmin ==
    \/ \E k \in Keys, c \in PlainCandidates : saveQuestion(k, c.options, c.correct_index)
    \/ \E c \in Chats, u \in Users, k \in Keys : cleanCommand(u, c, k)
    \/ \E u \in Users, m \in sent, a \in {"confirm", "cancel"} : cleanCallback(u, m, a)
    \/ \E u \in Users, q \in Ids : delCallback(u, q)

SpecAdmin == Init /\ [][NextAdmin]_vars

\* the generation pipeline: it reads and writes no table
NextGenerate ==
    \/ \E v \in Variants : Generate(v)
    \/ \E c \in Completions(DraftValues) : DraftReply(c)
    \/ \E c \in Completions(IndexValues) : ValidationReply(c)

SpecGenerate == Init /\ [][NextGenerate]_vars

\* the ratings: one question under vote by many users, and what is shown of it
NextRating ==
    \/ \E c \in PlainCandidates : saveQuestion(1, c.options, c.correct_index)
    \/ \E u \in Raters, b \in BOOLEAN : addVote(u, 1, b)
    \/ \E q \in Ids : answer(q)
    \/ \E k \in Keys, p \in Pages : getQuestions(k, p)

SpecRating == Init /\ [][NextRating]_vars

\* votes on one question that arrive together, after votes and a save that
\* came one by one
NextConcurrent ==
    \/ \E c \in PlainCandidates :
          conc = NoConc /\ nextId = 1 /\ saveQuestion(1, c.options, c.correct_index)
    \/ \E u \in Users, b \in BOOLEAN : conc = NoConc /\ addVote(u, 1, b)
    \/ \E s \in Slots, u \in Users, b \in BOOLEAN : voteArrives(s, u, 1, b)
    \/ \E s \in Slots : addVoteRead(s)
    \/ \E s \in Slots : addVoteWrite(s)

SpecConcurrent == Init /\ [][NextConcurrent]_vars

\* one key, up to MaxCover questions, calls at times that all differ
NextCover ==
    \/ \E c \in PlainCandidates :
          nextId <= MaxCover /\ insertQuestion(1, c.options, c.correct_index)
    \/ \E u \in Users : getRandomQuestionLater(1, u)

SpecCover == Init /\ [][NextCover]_vars

\* deliveries that may fail, at the time of the call before or later
NextDeliver ==
    \/ \E k \in Keys, c \in PlainCandidates : saveQuestion(k, c.options, c.correct_index)
    \/ \E k \in Keys, u \in Users, t \in 1..MaxTime, d \in BOOLEAN :
          /\ t \in {now, now + 1}
          /\ sendRandomQuestion(k, u, t, d)
          /\ UNCHANGED <<hist, images>>

SpecDeliver == Init /\ [][NextDeliver]_vars

\* exposures while questions come and go; every call is recorded
NextExposure ==
    \/ \E k \in Keys, c \in PlainCandidates : saveQuestion(k, c.options, c.correct_index)
    \/ \E k \in Keys : clearQuestions(k)
    \/ \E q \in Ids : deleteQuestion(q)
    \/ \E k \in Keys, u \in Users, t \in 1..MaxTime : getRandomQuestionRecorded(k, u, t)

SpecExposure == Init /\ [][NextExposure]_vars

\* ======================= the quality ledger =======================
\* the vote rows of a key, read off the table without the model's helpers
RowsOf(vs, uid, qid) == {r \in vs : r.user_id = uid /\ r.question_id = qid}
HasVote(vs, uid, qid, v) ==
    \E r \in RowsOf(vs, uid, qid) : r.vote = v
Polarity(b) == IF b THEN 1 ELSE -1
VotedNow == op'.name = "addVote"

\* C1: a second addVote(u, q, p) right after the first leaves the votes table
\* and the counters as the first left them, and a vote of the polarity that is
\* already stored changes nothing in the store.
C1_VoteIdempotent ==
    [][ /\ VotedNow
        /\ \/ /\ op.name = "addVote"
              /\ op.userId = op'.userId
              /\ op.questionId = op'.questionId
              /\ op.isUpvote = op'.isUpvote
           \/ HasVote(votes, op'.userId, op'.questionId, Polarity(op'.isUpvote))
        => votes' = votes /\ questions' = questions ]_vars

\* a repeated vote on an existing question that already counts votes
C1_Witness ==
    /\ op.name = "addVote"
    /\ op.path = "same"
    /\ op.questionId \in DOMAIN questions
    /\ questions[op.questionId].thumbs_up + questions[op.questionId].thumbs_down > 0
    /\ HasVote(votes, op.userId, op.questionId, Polarity(op.isUpvote))

\* C2: a vote of the opposite polarity on an existing question moves exactly
\* one count from the old counter to the new one and stores the new polarity;
\* from no vote, approve followed by reject leaves thumbs_up as it was and
\* thumbs_down one higher.
C2_FlipStep ==
    /\ VotedNow
    /\ op'.questionId \in DOMAIN questions
    /\ HasVote(votes, op'.userId, op'.questionId, - Polarity(op'.isUpvote))
    => LET q == questions[op'.questionId]
           q2 == questions'[op'.questionId]
           d == Polarity(op'.isUpvote)
       IN  /\ q2.thumbs_up = q.thumbs_up + d
           /\ q2.thumbs_down = q.thumbs_down - d
           /\ RowsOf(votes', op'.userId, op'.questionId) =
                 {[user_id |-> op'.userId, question_id |-> op'.questionId, vote |-> d]}

C2_ApproveThenReject ==
    \A u \in Users : \A q \in DOMAIN questions :
        RowsOf(votes, u, q) = {} =>
            LET vs1 == VotesAfter(votes, u, q, TRUE)
                qs1 == QuestionsAfter(questions, votes, u, q, TRUE)
                vs2 == VotesAfter(vs1, u, q, FALSE)
                qs2 == QuestionsAfter(qs1, vs1, u, q, FALSE)
            IN  /\ qs2[q].thumbs_up = questions[q].thumbs_up
                /\ qs2[q].thumbs_down = questions[q].thumbs_down + 1
                /\ HasVote(vs2, u, q, -1)
                /\ ~HasVote(vs2, u, q, 1)

C2_FlipCorrect == [][C2_FlipStep]_vars /\ []C2_ApproveThenReject

\* a vote just changed from approve to reject on an existing question
C2_Witness ==
    /\ op.name = "addVote"
    /\ op.path = "flip"
    /\ ~op.isUpvote
    /\ op.questionId \in DOMAIN questions
    /\ questions[op.questionId].thumbs_down >= 1
    /\ HasVote(votes, op.userId, op.questionId, -1)

\* C3: every existing question has thumbs_up equal to the number of approve
\* rows stored for it and thumbs_down equal to the number of reject rows, and
\* neither counter is negative.
C3_LedgerConsistent ==
    \A q \in DOMAIN questions :
        /\ questions[q].thumbs_up =
              Cardinality({r \in votes : r.question_id = q /\ r.vote = 1})
        /\ questions[q].thumbs_down =
              Cardinality({r \in votes : r.question_id = q /\ r.vote = -1})
        /\ questions[q].thumbs_up >= 0
        /\ questions[q].thumbs_down >= 0

\* C4: there is at most one vote row per (user_id, question_id); a later vote
\* of the same user on the same question overwrites the polarity of the row
\* and adds none.
C4_OneRowPerKey ==
    \A r1, r2 \in votes :
        (r1.user_id = r2.user_id /\ r1.question_id = r2.question_id) => r1 = r2

C4_Overwrite ==
    /\ VotedNow
    /\ RowsOf(votes, op'.userId, op'.questionId) # {}
    => /\ Cardinality(votes') = Cardinality(votes)
       /\ RowsOf(votes', op'.userId, op'.questionId) =
             {[user_id |-> op'.userId, question_id |-> op'.questionId,
               vote |-> Polarity(op'.isUpvote)]}

C4_VoteSingleton == []C4_OneRowPerKey /\ [][C4_Overwrite]_vars

\* a user has changed a vote while other rows are stored
C4_Witness ==
    /\ op.name = "addVote"
    /\ op.path = "flip"
    /\ Cardinality(votes) >= 2
    /\ Cardinality(RowsOf(votes, op.userId, op.questionId)) = 1

\* ======================= the selection engine =======================
\* the tables read without the model's helpers
Shown(up, u, id) == \E r \in up : r.user_id = u /\ r.question_id = id
UnderKey(qs, k) == {id \in DOMAIN qs : qs[id].study_key = k}
Fresh(qs, up, k, u) == {id \in UnderKey(qs, k) : ~Shown(up, u, id)}
Stamp(up, u, id) ==
    (CHOOSE r \in up : r.user_id = u /\ r.question_id = id).last_used_at
\* rating (thumbs_up + 1) / (thumbs_up + thumbs_down + 2) of a against that of b
RatingGE(a, b) ==
    (a.thumbs_up + 1) * (b.thumbs_up + b.thumbs_down + 2)
        >= (b.thumbs_up + 1) * (a.thumbs_up + a.thumbs_down + 2)
RatingGT(a, b) == ~RatingGE(b, a)
SelectedNow == op'.name = "getRandomQuestion"

\* C5: whenever some question of the key has no exposure row of the user,
\* getRandomQuestion returns a question without an exposure row of the user,
\* whatever the ratings are.
C5_NoveltyFirst ==
    [][ /\ SelectedNow
        /\ Fresh(questions, user_progress, op'.studyKey, op'.userId) # {}
        => op'.questionId \in Fresh(questions, user_progress, op'.studyKey, op'.userId)
      ]_vars

\* an unexposed question was returned although a question exposed earlier is rated higher
C5_Witness ==
    /\ op.name = "getRandomQuestion"
    /\ op.path = "novelty"
    /\ \E o \in UnderKey(questions, op.studyKey) \ {op.questionId} :
          /\ Shown(user_progress, op.userId, o)
          /\ Stamp(user_progress, op.userId, o) < Stamp(user_progress, op.userId, op.questionId)
          /\ RatingGT(questions[o], questions[op.questionId])

\* C6: a returned question that was unexposed has a rating greater than or
\* equal to that of every other question of the key unexposed for the user.
C6_BestUnexposed ==
    [][ /\ SelectedNow
        /\ op'.questionId \in Fresh(questions, user_progress, op'.studyKey, op'.userId)
        => \A o \in Fresh(questions, user_progress, op'.studyKey, op'.userId) :
              RatingGE(questions[op'.questionId], questions[o])
      ]_vars

\* the call preferred a question to a lower-rated one that is still unexposed
C6_Witness ==
    /\ op.name = "getRandomQuestion"
    /\ op.path = "novelty"
    /\ op.questionId \in DOMAIN questions
    /\ \E o \in Fresh(questions, user_progress, op.studyKey, op.userId) :
          RatingGT(questions[op.questionId], questions[o])

\* every question of the key has a row of the user, the stamps pairwise distinct
AllShownDistinct(qs, up, k, u) ==
    /\ UnderKey(qs, k) # {}
    /\ \A id \in UnderKey(qs, k) : Shown(up, u, id)
    /\ \A a, b \in UnderKey(qs, k) : a # b => Stamp(up, u, a) # Stamp(up, u, b)

C7_First ==
    /\ SelectedNow
    /\ AllShownDistinct(questions, user_progress, op'.studyKey, op'.userId)
    => /\ op'.questionId \in UnderKey(questions, op'.studyKey)
       /\ \A o \in UnderKey(questions, op'.studyKey) :
             Stamp(user_progress, op'.userId, op'.questionId)
                <= Stamp(user_progress, op'.userId, o)

\* the call before was such a call over at least two questions, and this one
\* follows it immediately for the same user and key
C7_SecondCall ==
    /\ op.name = "getRandomQuestion"
    /\ op.allDistinct
    /\ op.second # Null
    /\ SelectedNow
    /\ op'.userId = op.userId
    /\ op'.studyKey = op.studyKey

\* C7 as claimed: with every question exposed at pairwise distinct times the
\* call returns the question with the smallest last_used_at, and an
\* immediately following second call returns the one with the next-smallest.
C7_LruAsClaimed ==
    [][ C7_First /\ (C7_SecondCall => op'.questionId = op.second) ]_vars

\* C7 amended: ... and an immediately following second call returns the one
\* with the next-smallest last_used_at, provided the first call was made at a
\* later time than that last_used_at.
C7_LruCorrect ==
    [][ /\ C7_First
        /\ (C7_SecondCall
            /\ Stamp(user_progress, op.userId, op.questionId)
                  > Stamp(user_progress, op.userId, op.second))
           => op'.questionId = op.second ]_vars

\* a second call has just returned the next-oldest question of the first
C7_Witness ==
    /\ op.name = "getRandomQuestion"
    /\ op.path = "lru"
    /\ op.expected # Null
    /\ op.questionId = op.expected
    /\ Cardinality(UnderKey(questions, op.studyKey)) >= 2

\* C8: a call that returns a question has written the user's exposure row of
\* that question, with last_used_at the time of the call.
C8_ExposureWritten ==
    [][ /\ SelectedNow
        /\ op'.questionId # Null
        => {r \in user_progress' : r.user_id = op'.userId /\ r.question_id = op'.questionId}
              = {[user_id |-> op'.userId, question_id |-> op'.questionId,
                  last_used_at |-> now']} ]_vars

\* a question exposed before was returned again at a later time
C8_Witness ==
    /\ op.name = "getRandomQuestion"
    /\ op.path = "lru"
    /\ now > 1
    /\ Stamp(user_progress, op.userId, op.questionId) = now
    /\ \E o \in UnderKey(questions, op.studyKey) :
          Stamp(user_progress, op.userId, o) < now

\* ======================= the debias routine =======================
\* the option texts of a stored row, and the text its correct_index designates
TextsOf(row) == [i \in 1..Len(row.options) |-> row.options[i][2]]
IndexInRange(row) == row.correct_index >= 0 /\ row.correct_index < Len(row.options)
DistinctTexts(row) ==
    \A i, j \in 1..Len(row.options) : i # j => TextsOf(row)[i] # TextsOf(row)[j]
Count(seq, x) == Cardinality({i \in 1..Len(seq) : seq[i] = x})
CorrectText(row) == TextsOf(row)[row.correct_index + 1]

\* C9: when the shuffle has processed a question with pairwise distinct option
\* texts and an in-range correct_index, the stored options are a permutation
\* of the former ones and correct_index designates the same text as before.
C9_ShuffleCorrect ==
    [][ /\ op'.name = "shuffle"
        /\ op'.questionId \in DOMAIN questions
        /\ DistinctTexts(questions[op'.questionId])
        /\ IndexInRange(questions[op'.questionId])
        => LET old == questions[op'.questionId]
               new == questions'[op'.questionId]
           IN  /\ Len(new.options) = Len(old.options)
               /\ \A x \in Texts : Count(TextsOf(new), x) = Count(TextsOf(old), x)
               /\ IndexInRange(new)
               /\ CorrectText(new) = CorrectText(old) ]_vars

\* the shuffle has reordered three distinct options and moved the correct one
C9_Witness ==
    /\ op.name = "shuffle"
    /\ op.path = "updated"
    /\ op.moved
    /\ op.questionId \in DOMAIN questions
    /\ Len(questions[op.questionId].options) = 3
    /\ DistinctTexts(questions[op.questionId])
    /\ questions[op.questionId].correct_index = 2

\* C10: every stored question has at least two options and a correct_index
\* within them, at all times.
C10_WellFormed ==
    \A id \in DOMAIN questions :
        /\ Len(questions[id].options) >= 2
        /\ IndexInRange(questions[id])

\* ======================= the generation pipeline =======================
\* what is left of a reply's text once fences and white space are dropped
Payload(completion) ==
    SelectSeq(completion.content, LAMBDA p : p.kind \in {"json", "text"})
\* the reply is JSON text
Parses(completion) ==
    /\ ~completion.throws
    /\ Len(Payload(completion)) = 1
    /\ Payload(completion)[1].kind = "json"
Parsed(completion) == Payload(completion)[1].val
ParsesToList(completion) ==
    Parses(completion) /\ Parsed(completion).kind = "list"
\* the draft call has answered / the validation call has answered
Drafted == gen.pc \in {"validating", "done"}
Validated == gen.pc = "done" /\ gen.calls2 = 1
IsEmptyList(v) == v.kind = "list" /\ v.items = <<>>

\* C11: when the draft completion throws, is empty, is not JSON once the
\* fences are stripped, or is the empty list, generateQuestions returns the
\* empty list and no validation completion is issued.
C11_FailsClosed ==
    (/\ Drafted
     /\ \/ ~Parses(gen.reply1)
        \/ IsEmptyList(Parsed(gen.reply1)))
        => /\ gen.pc = "done"
           /\ IsEmptyList(gen.result)
           /\ gen.calls2 = 0

\* a fenced reply holding the empty list has been answered with the empty list
C11_Witness ==
    /\ gen.pc = "done"
    /\ Len(gen.reply1.content) = 3
    /\ gen.reply1.content[1].kind = "fence-json"
    /\ Parses(gen.reply1)
    /\ IsEmptyList(Parsed(gen.reply1))
    /\ IsEmptyList(gen.result)
    /\ gen.calls2 = 0

\* C12: when the validation completion throws, is empty, is not JSON, or is
\* JSON that is no list, generateQuestions returns the draft of stage 1 as it
\* was: every candidate, in the original order.
C12_FailsOpen ==
    (Validated /\ ~ParsesToList(gen.reply2))
        => gen.result = Parsed(gen.reply1)

\* a draft of three candidates came back whole after a reply that is no list
C12_Witness ==
    /\ Validated
    /\ Parses(gen.reply2)
    /\ Parsed(gen.reply2).kind = "object"
    /\ Parsed(gen.reply1).kind = "list"
    /\ Len(Parsed(gen.reply1).items) = 3
    /\ Parsed(gen.reply1).items[1] # Parsed(gen.reply1).items[3]
    /\ gen.result = Parsed(gen.reply1)

\* the zero-based positions of a draft that an index list names
Named(items, indices) ==
    {i \in 1..Len(items) : \E j \in 1..Len(indices) : indices[j] = i - 1}
\* result is items restricted to the positions in keep, in the order of items
SubsequenceAt(result, items, keep) ==
    \E f \in [1..Len(result) -> 1..Len(items)] :
        /\ \A j, k \in 1..Len(result) : j < k => f[j] < f[k]
        /\ {f[j] : j \in 1..Len(result)} = keep
        /\ \A j \in 1..Len(result) : result[j] = items[f[j]]

\* C13: when the validation completion is a list of indices, the result is
\* the draft restricted to the positions the list names, in draft order;
\* indices out of range, repeated, or out of order change nothing, and no
\* position is kept twice.
C13_FilterCorrect ==
    (/\ Validated
     /\ ParsesToList(gen.reply2)
     /\ Parsed(gen.reply1).kind = "list")
        => /\ gen.result.kind = "list"
           /\ SubsequenceAt(gen.result.items, Parsed(gen.reply1).items,
                            Named(Parsed(gen.reply1).items, Parsed(gen.reply2).items))

\* the indices 2, 0 (out of order) kept the first and third of three candidates
C13_Witness ==
    /\ Validated
    /\ ParsesToList(gen.reply2)
    /\ Parsed(gen.reply2).items = <<2, 0>>
    /\ Parsed(gen.reply1).kind = "list"
    /\ Len(Parsed(gen.reply1).items) = 3
    /\ Parsed(gen.reply1).items[1] # Parsed(gen.reply1).items[3]
    /\ gen.result.items = <<Parsed(gen.reply1).items[1], Parsed(gen.reply1).items[3]>>


\* ======================= ratings =======================
\* the counters of the question the last callback was about, zeros without a row
CountsOf(id) ==
    IF id \in DOMAIN questions
    THEN <<questions[id].thumbs_up, questions[id].thumbs_down>>
    ELSE <<0, 0>>
\* (approve + 1) / (approve + reject + 2) as a percentage, rounded to the nearest
LaplacePercent(up, down) == (200 * (up + 1) + (up + down + 2)) \div (2 * (up + down + 2))
Surfaced == op.name \in {"answer", "addVote"}

\* C14: the percentage shown after a correct answer and after a vote is the
\* rounded percentage of (approve+1)/(approve+reject+2): 50 for a question
\* without votes, and never 0 or 100.
C14_SurfacedSmoothed ==
    Surfaced =>
        /\ op.rating = LaplacePercent(CountsOf(op.questionId)[1], CountsOf(op.questionId)[2])
        /\ op.rating \notin {0, 100}

\* C15: for counters that are not negative, the rating of the listing and the
\* selection is above 0 and below 1, is 1/2 for (0, 0), and has a denominator
\* that is not zero.
C15_RatingBounds ==
    op.name = "getQuestions" =>
        \A i \in 1..Len(op.rows) :
            LET row == op.rows[i]
            IN  (row.thumbs_up >= 0 /\ row.thumbs_down >= 0) =>
                    /\ row.rating.den # 0
                    /\ 0 < row.rating.num
                    /\ row.rating.num < row.rating.den
                    /\ (row.thumbs_up = 0 /\ row.thumbs_down = 0)
                           => 2 * row.rating.num = row.rating.den

\* a listing of two questions, one without votes and one with three approvals
\* and one rejection
C15_Witness ==
    /\ op.name = "getQuestions"
    /\ Len(op.rows) = 2
    /\ \E i \in 1..2 : op.rows[i].thumbs_up = 0 /\ op.rows[i].thumbs_down = 0
    /\ \E i \in 1..2 : op.rows[i].thumbs_up = 3 /\ op.rows[i].thumbs_down = 1


\* ======================= ties and empty topics =======================
\* the unexposed questions of the key that no unexposed question outrates
Best(qs, up, k, u) ==
    {id \in Fresh(qs, up, k, u) : \A o \in Fresh(qs, up, k, u) : RatingGE(qs[id], qs[o])}

\* C16: when two or more questions unexposed for the user share the highest
\* rating, a getRandomQuestion call can return each of them: whatever its id,
\* a step that returns it is possible.
C16_TieAnyResult ==
    \A k \in Keys, u \in Users :
        (phase = "serving" /\ Cardinality(Best(questions, user_progress, k, u)) >= 2)
            => \A id \in Best(questions, user_progress, k, u) :
                   ENABLED (getRandomQuestion(k, u, now) /\ op'.questionId = id)

\* of two unexposed questions with equal ratings the one saved later was returned
C16_Witness ==
    /\ op.name = "getRandomQuestion"
    /\ op.path = "novelty"
    /\ op.questionId = 2
    /\ 1 \in Fresh(questions, user_progress, op.studyKey, op.userId)
    /\ RatingGE(questions[1], questions[2])
    /\ RatingGE(questions[2], questions[1])


\* C17: when no question is stored under the key, getRandomQuestion returns
\* none and neither adds nor changes an exposure row.
C17_EmptyTopic ==
    [][ (SelectedNow /\ UnderKey(questions, op'.studyKey) = {})
        => /\ op'.questionId = Null
           /\ user_progress' = user_progress
      ]_vars

\* a call on a cleared key returned none although the user's rows of the
\* cleared questions are still stored
C17_Witness ==
    /\ op.name = "getRandomQuestion"
    /\ op.questionId = Null
    /\ UnderKey(questions, op.studyKey) = {}
    /\ \E r \in user_progress : r.user_id = op.userId /\ r.question_id \notin DOMAIN questions
    /\ \E id \in DOMAIN questions : questions[id].study_key # op.studyKey


\* ======================= failures in the shuffle =======================
\* C18: when the store fails to take the new options of a question, or the
\* renderer fails on it, the loop goes on with the rows that follow.
C18_FailureIsolated ==
    [][ (/\ op'.name = "shuffle"
         /\ op'.path = "aborted" \/ op'.render = "failed")
        => todo' = Tail(todo)
      ]_vars


\* ======================= votes of removed questions =======================
\* C19: every vote row is the vote on a stored question: removing a question,
\* alone or with its whole key, removes its vote rows, and a vote on an id
\* that is not stored leaves no row.
C19_VoteCascade ==
    \A v \in votes : v.question_id \in DOMAIN questions


\* ======================= votes that arrive together =======================
\* the tables after the calls of the slots in seq, one after the other
RECURSIVE SerialFrom(_, _, _)
SerialFrom(tables, calls, seq) ==
    IF seq = <<>> THEN tables
    ELSE LET c == calls[Head(seq)]
         IN  SerialFrom([votes |-> VotesAfter(tables.votes, c.userId, c.questionId,
                                              c.isUpvote),
                         questions |-> QuestionsAfter(tables.questions, tables.votes,
                                                      c.userId, c.questionId, c.isUpvote)],
                        calls, Tail(seq))
Orders(S) ==
    {f \in [1..Cardinality(S) -> S] : \A i, j \in 1..Cardinality(S) : i # j => f[i] # f[j]}
Arrived == {s \in Slots : conc.calls[s].pc # "idle"}
AllReturned == Arrived # {} /\ \A s \in Arrived : conc.calls[s].pc = "done"

\* C20: when all addVote calls that arrived together have returned, the
\* vote rows and the counters are those of the calls made one after the other
\* in some order; a changed vote is counted once.
C20_Serializable ==
    AllReturned =>
        \E f \in Orders(Arrived) :
            [votes |-> votes, questions |-> questions]
                = SerialFrom(conc.base, conc.calls, f)

\* two callbacks of one user for the stored question, both against the stored
\* vote, were in flight together and have returned; the vote is counted once
C20_Witness ==
    /\ AllReturned
    /\ Arrived = Slots
    /\ op.name = "addVoteWrite"
    /\ \A s, t \in Slots : /\ conc.calls[s].userId = conc.calls[t].userId
                           /\ conc.calls[s].isUpvote = conc.calls[t].isUpvote
    /\ \E r \in conc.base.votes :
          /\ r.user_id = conc.calls[1].userId
          /\ r.question_id = conc.calls[1].questionId
          /\ r.vote # (IF conc.calls[1].isUpvote THEN 1 ELSE -1)
    /\ conc.calls[1].questionId \in DOMAIN questions
    /\ questions[conc.calls[1].questionId].thumbs_up
           + questions[conc.calls[1].questionId].thumbs_down = 1


\* ======================= the two writes of a vote =======================
\* C21: a vote changes the vote row and the counters of its question
\* together, or it changes neither.
C21_NoPartialCommit ==
    [][ VotedNow => ((votes' # votes) <=> (questions' # questions)) ]_vars


\* ======================= coverage =======================
\* the recorded calls of a user on a key, oldest first
CallsOf(u, k) == SelectSeq(hist, LAMBDA c : c.userId = u /\ c.studyKey = k)
\* calls i .. i+n-1 of a sequence of calls
Window(calls, i, n) == SubSeq(calls, i, i + n - 1)
\* all calls of the window found the same n questions under the key
FixedSet(w) ==
    /\ Cardinality(w[1].under) = Len(w)
    /\ \A j \in 1..Len(w) : w[j].under = w[1].under

\* C22: over calls at distinct times, any N consecutive calls of a user that
\* found the same N questions under the key returned N distinct questions of
\* the key: each question once per round, none a second time before the others.
C22_Coverage ==
    \A u \in Users, k \in Keys :
        LET calls == CallsOf(u, k)
        IN  \A n \in 1..Len(calls), i \in 1..Len(calls) :
                (i + n - 1 <= Len(calls) /\ FixedSet(Window(calls, i, n)))
                    => LET w == Window(calls, i, n)
                       IN  /\ \A j \in 1..n : w[j].questionId \in w[1].under
                           /\ \A j, l \in 1..n : j # l => w[j].questionId # w[l].questionId

\* six calls of one user on three questions: two full rounds
C22_Witness ==
    \E u \in Users :
        LET calls == CallsOf(u, 1)
        IN  /\ Len(calls) = 6
            /\ \A j \in 1..6 : Cardinality(calls[j].under) = 3
            /\ calls[4].questionId = calls[1].questionId
            /\ calls[6].questionId = calls[3].questionId


\* ======================= a delivery that fails =======================
\* the call before this one returned a question that could not be delivered,
\* and this call is the next request of the same user on the same key
RetryNow ==
    /\ op.name = "getRandomQuestion"
    /\ op.questionId # Null
    /\ ~op.delivered
    /\ op'.name = "getRandomQuestion"
    /\ op'.userId = op.userId
    /\ op'.studyKey = op.studyKey
    /\ Cardinality(UnderKey(questions, op.studyKey)) >= 2

\* C23 as claimed: after a delivery that failed the exposure row is kept, and
\* the next request of the user on a key with two or more questions returns
\* another question.
C23_RetryDiffers ==
    [][ RetryNow => /\ Shown(user_progress, op.userId, op.questionId)
                    /\ op'.questionId # op.questionId ]_vars

\* some other question of the key is new to the user, or was last used
\* before the question of the failed delivery
OtherIsOlder(qs, up, k, u, id) ==
    \E o \in UnderKey(qs, k) \ {id} :
        \/ ~Shown(up, u, o)
        \/ Stamp(up, u, o) < Stamp(up, u, id)

\* C23: after a delivery that failed the exposure row is kept, and the next
\* request returns another question when some other question of the key is
\* unexposed or has an earlier last_used_at than the failed call wrote.
C23_RetryCorrect ==
    [][ RetryNow =>
          /\ Shown(user_progress, op.userId, op.questionId)
          /\ OtherIsOlder(questions, user_progress, op.studyKey, op.userId, op.questionId)
                 => op'.questionId # op.questionId ]_vars

\* with every question exposed, the request after a failed delivery returned
\* the other question
C23_Witness ==
    /\ op.name = "getRandomQuestion"
    /\ op.path = "lru"
    /\ op.after # Null
    /\ op.questionId # Null
    /\ op.questionId # op.after
    /\ Shown(user_progress, op.userId, op.after)


\* ======================= exposure rows =======================
\* some recorded call of the user returned the question
Returned(u, q) == \E i \in 1..Len(hist) : hist[i].userId = u /\ hist[i].questionId = q
ExposureRows(up, u, q) == {r \in up : r.user_id = u /\ r.question_id = q}

\* at most one row per key; a stored question has a row of a user exactly
\* when a call of that user returned it
C24_RowsAreReturns ==
    /\ \A u \in Users, q \in Ids : Cardinality(ExposureRows(user_progress, u, q)) <= 1
    /\ \A u \in Users, q \in DOMAIN questions :
          Shown(user_progress, u, q) <=> Returned(u, q)

\* a call that returns a question the user has a row of adds no row and sets
\* last_used_at of that row
C24_ReExposure ==
    (SelectedNow /\ op'.questionId # Null
        /\ Shown(user_progress, op'.userId, op'.questionId))
        => /\ Cardinality(user_progress') = Cardinality(user_progress)
           /\ ExposureRows(user_progress', op'.userId, op'.questionId)
                 = {[user_id |-> op'.userId, question_id |-> op'.questionId,
                     last_used_at |-> now']}

\* C24: at most one exposure row per (user_id, question_id); for a stored
\* question the row of a user exists exactly when an earlier call of that user
\* returned the question; a re-exposure updates last_used_at and adds no row.
C24_ExposureSingleton ==
    []C24_RowsAreReturns /\ [][C24_ReExposure]_vars

\* a question was returned twice to the user, the second time later, and has
\* one row with the later time
C24_Witness ==
    \E i, j \in 1..Len(hist) :
        /\ i < j
        /\ hist[i].userId = hist[j].userId
        /\ hist[i].questionId = hist[j].questionId
        /\ hist[j].questionId \in DOMAIN questions
        /\ op.name = "getRandomQuestion"
        /\ op.questionId = hist[j].questionId
        /\ op.userId = hist[j].userId
        /\ now > 1
        /\ ExposureRows(user_progress, op.userId, op.questionId)
              = {[user_id |-> op.userId, question_id |-> op.questionId,
                  last_used_at |-> now]}


\* ======================= the third query =======================
\* C25: the third query of getRandomQuestion never supplies the result: when
\* the first two return no row, the key has no question.
C25_FallbackUnreachable ==
    op.name = "getRandomQuestion" =>
        /\ op.path # "fallback"
        /\ op.questionId = Null => UnderKey(questions, op.studyKey) = {}

\* a call found no row in any query although the user has rows of questions
\* of another key
C25_Witness ==
    /\ op.name = "getRandomQuestion"
    /\ op.path = "none"
    /\ op.questionId = Null
    /\ \E r \in user_progress :
          /\ r.user_id = op.userId
          /\ r.question_id \in DOMAIN questions
          /\ questions[r.question_id].study_key # op.studyKey


\* ======================= the frame of the selection =======================
\* the rows of the table but the one of the user for the question
RowsBut(up, u, q) == {r \in up : ~(r.user_id = u /\ r.question_id = q)}

\* C26: a getRandomQuestion call leaves every question (key, options,
\* correct_index, thumbs_up, thumbs_down) and every vote row as they were; a
\* call that returns no question writes nothing, and a call that returns one
\* writes only the exposure row of that question for the calling user.
C26_SelectionFrame ==
    [][ SelectedNow =>
          /\ questions' = questions
          /\ votes' = votes
          /\ nextId' = nextId
          /\ op'.questionId = Null => user_progress' = user_progress
          /\ op'.questionId # Null =>
                /\ RowsBut(user_progress', op'.userId, op'.questionId)
                      = RowsBut(user_progress, op'.userId, op'.questionId)
                /\ Cardinality(user_progress' \ RowsBut(user_progress', op'.userId,
                                                        op'.questionId)) = 1
      ]_vars

\* the second user was given a question that has a vote and a counter above
\* zero and that the first user was given before; the row of the first user
\* is still there
C26_Witness ==
    /\ op.name = "getRandomQuestion"
    /\ op.userId = 2
    /\ op.questionId \in DOMAIN questions
    /\ questions[op.questionId].thumbs_up + questions[op.questionId].thumbs_down > 0
    /\ \E v \in votes : v.question_id = op.questionId
    /\ Shown(user_progress, 1, op.questionId)
    /\ Shown(user_progress, 2, op.questionId)


\* ======================= questions the shuffle cannot process =======================
\* the options of the row are an array and correct_index is a position in it
Designates(row) ==
    /\ \A i \in 1..Len(row.options) : row.options[i][1] = "str"
    /\ row.correct_index >= 0
    /\ row.correct_index < Len(row.options)

\* C29: when the correct_index of the question the shuffle is at designates
\* none of its options, the shuffle leaves the question as it is stored and
\* goes on with the next row.
C29_SkippedInBatch ==
    [][ (/\ op'.name = "shuffle"
         /\ op'.questionId \in DOMAIN questions
         /\ ~Designates(questions[op'.questionId]))
        => /\ questions' = questions
           /\ todo' = Tail(todo)
      ]_vars


\* ======================= the shuffle, run after run =======================
\* b holds the elements of a in some order
Reordered(a, b) ==
    /\ Len(a) = Len(b)
    /\ \A x \in Texts : Count(a, x) = Count(b, x)

\* C27: in every step, of the shuffle or of a restart in the middle of it, a
\* stored question stays as it is or gets its options reordered together with
\* a correct_index that designates the text it designated before.
C27_AtomicRestartable ==
    [][ \A id \in DOMAIN questions \cap DOMAIN questions' :
          LET old == questions[id]
              new == questions'[id]
          IN  \/ new = old
              \/ /\ IndexInRange(old)
                 /\ IndexInRange(new)
                 /\ Reordered(TextsOf(old), TextsOf(new))
                 /\ CorrectText(new) = CorrectText(old)
      ]_vars

\* the process was stopped after the shuffle had updated a question and left
\* rows unprocessed, and the shuffle has started again with every row
C27_Witness ==
    /\ op.name = "restart"
    /\ op.path = "interrupted"
    /\ op.questionId \in DOMAIN questions
    /\ phase = "shuffle"
    /\ Len(todo) >= 2

\* C28: when the text of the correct option occurs more than once, the shuffle
\* stores as correct_index the first position of that text in the reordered
\* options, so the text at correct_index is the one captured.
C28_FirstOfEqualTexts ==
    [][ (/\ op'.name = "shuffle"
         /\ op'.path # "aborted"
         /\ op'.questionId \in DOMAIN questions
         /\ IndexInRange(questions[op'.questionId])
         /\ Count(TextsOf(questions[op'.questionId]),
                  CorrectText(questions[op'.questionId])) >= 2)
        => LET old == questions[op'.questionId]
               new == questions'[op'.questionId]
           IN  /\ IndexInRange(new)
               /\ CorrectText(new) = CorrectText(old)
               /\ \A k \in 1..new.correct_index : TextsOf(new)[k] # CorrectText(old)
      ]_vars

\* the shuffle left the order of the options as it was and moved correct_index
\* from one of the options with the correct text to another
C28_Witness ==
    /\ op.name = "shuffle"
    /\ op.path = "updated"
    /\ ~op.moved
    /\ op.questionId \in DOMAIN questions
    /\ op.index # questions[op.questionId].correct_index
    /\ Count(TextsOf(questions[op.questionId]),
             CorrectText(questions[op.questionId])) >= 2

\* C30: a step of the shuffle, and the start before and after it, leaves the
\* set of questions, every question's key, counters, number of options and
\* option texts up to their order, and every vote and exposure row as they
\* were.
C30_ShuffleFrame ==
    [][ op'.name \in {"shuffle", "restart", "start"} =>
          /\ DOMAIN questions' = DOMAIN questions
          /\ nextId' = nextId
          /\ votes' = votes
          /\ user_progress' = user_progress
          /\ \A id \in DOMAIN questions :
                /\ questions'[id].study_key = questions[id].study_key
                /\ questions'[id].thumbs_up = questions[id].thumbs_up
                /\ questions'[id].thumbs_down = questions[id].thumbs_down
                /\ Reordered(TextsOf(questions[id]), TextsOf(questions'[id]))
      ]_vars

\* the shuffle reordered the options of a question that has a vote, a counter
\* above zero and an exposure row, while another question is stored
C30_Witness ==
    /\ op.name = "shuffle"
    /\ op.path = "updated"
    /\ op.moved
    /\ op.questionId \in DOMAIN questions
    /\ Cardinality(DOMAIN questions) >= 2
    /\ questions[op.questionId].thumbs_up > 0
    /\ \E v \in votes : v.question_id = op.questionId
    /\ \E r \in user_progress : r.question_id = op.questionId


\* ======================= the two completions of one invocation =======================
\* C31: the validation completion is issued at most once in an invocation,
\* only after the draft completion answered with a list that is not empty, and
\* its prompt holds the text the user sent and the whole draft, every
\* candidate with its options and correct_index.
C31_StageOrder ==
    /\ gen.calls2 <= 1
    /\ gen.calls2 = 1 =>
          /\ gen.calls1 = 1
          /\ Drafted
          /\ ParsesToList(gen.reply1)
          /\ ~IsEmptyList(Parsed(gen.reply1))
          /\ gen.prompt.text
          /\ gen.prompt.review = Parsed(gen.reply1)


\* ======================= who removes questions =======================
\* C32: a step that removes a question from the store handles an update sent
\* by the admin: no update of another user, a press on a confirmation button
\* included, removes a question.
C32_AdminDeletes ==
    [][ (\E id \in DOMAIN questions : id \notin DOMAIN questions')
        => op'.userId = AdminId ]_vars


\* ======================= the shuffle and the first update =======================
\* the operations that handle an update
Handled == {"saveQuestion", "addVote", "answer", "getRandomQuestion", "getQuestions",
            "clearQuestions", "deleteQuestion", "clean", "clean:", "del:"}

\* C33: no update is handled while the shuffle is in progress: every
\* selection, vote, removal or other handler step starts and ends with the
\* batch over and the bot started.
C33_ShuffleBeforeServing ==
    [][ op'.name \in Handled =>
          /\ phase = "serving"
          /\ phase' = "serving"
          /\ todo = <<>>
      ]_vars

\* a vote was handled after a shuffle that moved the correct option of a
\* question
C33_Witness ==
    /\ op.name = "addVote"
    /\ phase = "serving"
    /\ op.questionId \in DOMAIN questions
    /\ questions[op.questionId].correct_index = 1
    /\ \E v \in votes : v.question_id = op.questionId


\* ======================= stored images =======================
\* C34: whenever a question is delivered with its stored image, the image
\* shows the question's options in their current order, so the letter buttons
\* and the correct index they carry match what is shown; also after a shuffle
\* whose rendering failed.
C34_ImageConsistent ==
    [][ ( /\ op'.name = "getRandomQuestion"
          /\ op'.questionId # Null
          /\ op'.delivered
          /\ op'.questionId \in DOMAIN images )
        => images[op'.questionId] = TextsOf(questions[op'.questionId]) ]_vars

\* ======================= the shape of the result =======================
\* C35: generateQuestions always returns a list whose elements are candidates
\* of the draft; a draft that is valid JSON but no list (an object, a number)
\* gives the empty list, never a value that is no list.
C35_AlwaysList ==
    gen.pc = "done" =>
        /\ gen.result.kind = "list"
        /\ \A i \in 1..Len(gen.result.items) :
              \E j \in 1..Len(gen.draft.items) :
                  gen.result.items[i] = gen.draft.items[j]

\* ======================= one user's selection and the others =======================
\* the exposure rows of the user, and those of the other users
OwnRows(up, userId) == {r \in up : r.user_id = userId}
OtherRows(up, userId) == {r \in up : r.user_id # userId}
\* the questions stored under the key
QuestionsUnder(qs, studyKey) ==
    [id \in {i \in DOMAIN qs : qs[i].study_key = studyKey} |-> qs[id]]

\* C36: a getRandomQuestion call for a user writes no exposure row of another
\* user, and the questions it may return are those it may return from the
\* questions of the key and the user's own exposure rows alone: whatever rows
\* the other users have, the possible results are the same.
C36_PerUserSelection ==
    [][ SelectedNow =>
          LET u == op'.userId
              k == op'.studyKey
              own == OwnRows(user_progress, u)
              alone == Results(QuestionsUnder(questions, k), own, k, u)
          IN  /\ OtherRows(user_progress', u) = OtherRows(user_progress, u)
              /\ {Results(questions, own \cup others, k, u) :
                    others \in SUBSET OtherRows(user_progress, u)} = {alone}
              /\ IF op'.questionId = Null THEN alone = {}
                                          ELSE op'.questionId \in alone
      ]_vars

\* the second user was given a question it had never been given, one that the
\* first user has an exposure row for, under a key that holds another
\* question as well
C36_Witness ==
    /\ op.name = "getRandomQuestion"
    /\ op.userId = 2
    /\ op.path = "novelty"
    /\ op.questionId \in DOMAIN questions
    /\ Shown(user_progress, 1, op.questionId)
    /\ \E id \in DOMAIN questions :
          /\ id # op.questionId
          /\ questions[id].study_key = op.studyKey
          /\ ~Shown(user_progress, 1, id)

\* ======================= a question just stored =======================
\* C37: a question just stored has thumbs_up = 0, thumbs_down = 0, no vote
\* row and no exposure row of any user, also after questions were deleted or
\* a key was cleared.
C37_FreshIsClean ==
    [][ op'.name = "saveQuestion" =>
          /\ op'.questionId \in DOMAIN questions'
          /\ questions'[op'.questionId].thumbs_up = 0
          /\ questions'[op'.questionId].thumbs_down = 0
          /\ \A v \in votes' : v.question_id # op'.questionId
          /\ \A r \in user_progress' : r.question_id # op'.questionId
      ]_vars

====
